---- MODULE Spec2Model ----
(***************************************************************************)
(* A model of navionguy/basicwasm: the key buffer (keybuffer.go), the      *)
(* comma separated expression lists of the parser, the error catalog       *)
(* (berrors.go), keyword lookup (token.go) and, of the file server         *)
(* (fileserv.go), the 8.3 file name rendering, the serving of files and    *)
(* directory listings, the drive path mapping and the directory walk.      *)
(*                                                                         *)
(* Conventions.  A Go byte is a number 0..255.  A Go string or []byte is a *)
(* sequence; a Go string that is only compared, never taken apart (a map   *)
(* key, an error text, a token type), is a TLA+ string.  A nil pointer,    *)
(* nil channel or nil map is Nil and a non-nil one holding v is Some(v).   *)
(***************************************************************************)
EXTENDS Integers, Sequences, FiniteSets, TLC

VARIABLES
    \* ---- keybuffer.go: the fields of the package variable kbuff ----
    KeySettings,  \* *ast.KeySettings: Nil or Some([Keys |-> label -> macro])
    keycodes,     \* chan []byte: Nil or Some(the sequences buffered in it)
    inp,          \* []byte: the key sequence being read (nil is <<>>)
    ind,          \* int: how many bytes of inp have been returned
    sig_break,    \* bool
    spcKeys,      \* map[string]string: hex text of a sequence -> label
    \* ---- keybuffer.go: its callers ----
    sender,       \* the goroutine inside SaveKeyStroke, when it is parked
    last,         \* the last call made on the buffer and what it returned
    nkeys,        \* how many sequences other than FillerKey were queued
    \* ---- parser: the Parser over the tokens of one statement ----
    toks,         \* the tokens the lexer delivers, the statement's end included
    pos,          \* curToken is token pos, peekToken is token pos + 1
    exp,          \* var exp []ast.Expression
    perrors,      \* the error codes reported so far
    ppc,          \* "off", "loop" (inside the for loop) or "done" (returned)
    \* ---- berrors.go: one call of TextForError ----
    err,          \* the argument
    text,         \* the returned text
    epc,          \* "off", "call" or "done"
    \* ---- token.go: one call of LookupIdent ----
    ident,        \* the argument, a sequence of runes
    tok,          \* the returned TokenType
    tpc,          \* "off", "call" or "done"
    \* ---- fileserv.go: one call of FormatFileName ----
    name,         \* the argument name, a sequence of bytes
    isDir,        \* the argument isDir
    output,       \* the returned string, a sequence of bytes
    fpc,          \* "off", "call" or "done"
    \* ---- fileserv.go: one call on a fileSource of the server ----
    rqName,       \* the argument name / fname, a sequence of characters
    rqType,       \* the argument mimetype
    disk,         \* what fs.src holds under the name
    opened,       \* what fileSource.Open returned: [file, err]
    rw,           \* the http.ResponseWriter: the calls made on it and their effect
    srcCalls,     \* the calls made on fs.src
    spc,          \* "off", "call", or the method that was called
    \* ---- fileserv.go: one call of convertDrive ----
    target,       \* the argument target, a sequence of characters
    cwd,          \* the argument cwd
    url,          \* the returned path
    dpc,          \* "off", "call" or "done"
    \* ---- fileserv.go: one call of wrapSubDirs, with the calls inside it ----
    wstack,       \* one frame per active wrapSubDirs call: path, files, entries done
    wpc,          \* where the innermost call stands
    wlast,        \* the last call made on the file system or the router
    routes        \* the routes registered with the router

kbVars == <<KeySettings, keycodes, inp, ind, sig_break, spcKeys, sender, last, nkeys>>

parserVars == <<toks, pos, exp, perrors, ppc>>

errVars == <<err, text, epc>>

tokenVars == <<ident, tok, tpc>>

formatVars == <<name, isDir, output, fpc>>

serveVars == <<rqName, rqType, disk, opened, rw, srcCalls, spc>>

driveVars == <<target, cwd, url, dpc>>

wrapVars == <<wstack, wpc, wlast, routes>>

vars ==
    <<kbVars, parserVars, errVars, tokenVars, formatVars, serveVars, driveVars, wrapVars>>

Nil == <<>>
Some(v) == <<v>>
Val(o) == o[1]

Range(s) == {s[i] : i \in 1..Len(s)}

\* A Go map read: the zero value for a key that is not in the map.
MapGet(m, k, zero) == IF k \in DOMAIN m THEN m[k] ELSE zero

(***************************************************************************)
(* keybuffer.go                                                            *)
(***************************************************************************)
f1Key == "1b4f50"
f2Key == "1b4f51"
f3Key == "1b4f52"
f4Key == "1b4f53"
f5Key == "1b5b31357e"
f6Key == "1b5b31377e"
f7Key == "1b5b31387e"
f8Key == "1b5b31397e"
f9Key == "1b5b32307e"
f10Key == "1b5b32317e"
f11Key == "1b5b41"
f12Key == "1b5b44"
f13Key == "1b5b43"
f14Key == "1b5b42"

fkeys == <<f1Key, f2Key, f3Key, f4Key, f5Key, f6Key, f7Key, f8Key, f9Key, f10Key,
           f11Key, f12Key, f13Key, f14Key>>

\* make(chan []byte, 20)
ChanCap == 20

CtrlC == 3
Esc == 27

\* encoding/hex: two lower case digits per byte, high nibble first.
hextable == <<"0", "1", "2", "3", "4", "5", "6", "7", "8", "9", "a", "b", "c", "d", "e", "f">>

RECURSIVE EncodeToString(_)
EncodeToString(src) ==
    IF src = <<>> THEN ""
    ELSE hextable[(Head(src) \div 16) + 1] \o hextable[(Head(src) % 16) + 1]
         \o EncodeToString(Tail(src))

\* fmt.Sprintf("F%d", i+1) for the 0-based i of the Go loop; n is i+1.
SprintfF(n) == "F" \o ToString(n)

\* GetKeyBuffer: the map is made when nil, every function key pattern is
\* (re)entered, and the address of kbuff is returned.
GetKeyBuffer ==
    /\ spcKeys' = [key \in DOMAIN spcKeys \cup Range(fkeys) |->
                     IF key \in Range(fkeys)
                     THEN SprintfF(CHOOSE i \in 1..Len(fkeys) :
                                      /\ fkeys[i] = key
                                      /\ \A j \in (i+1)..Len(fkeys) : fkeys[j] # key)
                     ELSE spcKeys[key]]
    /\ last' = [op |-> "GetKeyBuffer"]
    /\ UNCHANGED <<KeySettings, keycodes, inp, ind, sig_break, sender, nkeys>>

\* Code outside the package reaches kbuff only through the pointer that
\* GetKeyBuffer returns, so every method call follows a GetKeyBuffer call.
HasBuffer == DOMAIN spcKeys # {}

\* checkForCtrlC: the value of sig_break after the loop over inp.
checkForCtrlC(flag, key) == flag \/ (\E i \in 1..Len(key) : key[i] = CtrlC)

\* checkForSpecialKeys: the bytes that replace an escape sequence.
checkForSpecialKeysRaw(key) ==
    IF KeySettings = Nil THEN <<>>
    ELSE LET a == MapGet(spcKeys, EncodeToString(key), "")
             mac == MapGet(Val(KeySettings).Keys, a, <<>>)
         IN  IF mac = <<>> THEN key ELSE mac

checkForSpecialKeys(key) ==
    IF KeySettings = Nil THEN <<>>
    ELSE LET a == MapGet(spcKeys, EncodeToString(key), "")
             mac == MapGet(Val(KeySettings).Keys, a, <<>>)
         IN  mac

\* The bytes SaveKeyStroke goes on with after its escape sequence check.
Translate(key) ==
    IF Len(key) > 1 /\ key[1] = Esc THEN checkForSpecialKeys(key) ELSE key

Queue == IF keycodes = Nil THEN <<>> ELSE Val(keycodes)

Idle == [pc |-> "idle"]

\* ---- what the callers pass in ----
FillerKey == <<65>>
F1Seq == <<Esc, 79, 80>>
F14Seq == <<Esc, 91, 66>>
KeySeqs == {<<>>, FillerKey, <<CtrlC>>, <<Esc, CtrlC>>, <<Esc, 91, 90>>, F1Seq, F14Seq}

\* The KeySettings values the interpreter installs: none, or macros for some
\* of the labels F1..F14 (an empty text is a label with no macro).
KeySettingsChoices ==
    {Nil, Some([Keys |-> [l \in {"F1", "F2", "F14"} |->
                            CASE l = "F1" -> <<66, 67>>
                              [] l = "F2" -> <<68>>
                              [] l = "F14" -> <<>>]])}

\* How many queued sequences may differ from FillerKey.
MaxKeys == 1

\* The field KeySettings is exported: the interpreter assigns it.
SetKeySettings(ks) ==
    /\ HasBuffer
    /\ KeySettings' = ks
    /\ last' = [op |-> "SetKeySettings"]
    /\ UNCHANGED <<keycodes, inp, ind, sig_break, spcKeys, sender, nkeys>>

\* SaveKeyStroke with a send that gives up on a full channel.
SaveKeyStrokeDropWhenFull(key) ==
    LET k == Translate(key)
        q == Queue
    IN  /\ HasBuffer
        /\ sender = Idle
        /\ k \notin {<<>>, FillerKey} => nkeys < MaxKeys
        /\ nkeys' = IF k \in {<<>>, FillerKey} THEN nkeys ELSE nkeys + 1
        /\ IF k # <<>> /\ Len(q) < ChanCap
           THEN /\ keycodes' = Some(Append(q, k))
                /\ sig_break' = checkForCtrlC(sig_break, k)
           ELSE /\ keycodes' = Some(q)
                /\ UNCHANGED sig_break
        /\ last' = [op |-> "SaveKeyStroke", key |-> key, returned |-> TRUE]
        /\ UNCHANGED <<KeySettings, inp, ind, spcKeys, sender>>

\* SaveKeyStroke without its check for an empty array.
SaveKeyStrokeQueueEmpty(key) ==
    LET k == Translate(key)
        q == Queue
    IN  /\ HasBuffer
        /\ sender = Idle
        /\ k \notin {<<>>, FillerKey} => nkeys < MaxKeys
        /\ nkeys' = IF k \in {<<>>, FillerKey} THEN nkeys ELSE nkeys + 1
        /\ IF Len(q) < ChanCap
           THEN /\ keycodes' = Some(Append(q, k))
                /\ sig_break' = checkForCtrlC(sig_break, k)
                /\ last' = [op |-> "SaveKeyStroke", key |-> key, returned |-> TRUE]
                /\ UNCHANGED sender
           ELSE /\ keycodes' = Some(q)
                /\ sender' = [pc |-> "send", arg |-> key, key |-> k]
                /\ last' = [op |-> "SaveKeyStroke", key |-> key, returned |-> FALSE]
                /\ UNCHANGED sig_break
        /\ UNCHANGED <<KeySettings, inp, ind, spcKeys>>

\* SaveKeyStroke up to its return, or up to the channel send when the channel
\* is full: the goroutine parks there with the translated bytes in hand.
SaveKeyStroke(key) ==
    LET k == Translate(key)
        q == Queue
    IN  /\ HasBuffer
        /\ sender = Idle
        /\ k \notin {<<>>, FillerKey} => nkeys < MaxKeys
        /\ nkeys' = IF k \in {<<>>, FillerKey} THEN nkeys ELSE nkeys + 1
        /\ IF k = <<>>
           THEN /\ keycodes' = Some(q)
                /\ last' = [op |-> "SaveKeyStroke", key |-> key, returned |-> TRUE]
                /\ UNCHANGED <<sig_break, sender>>
           ELSE IF Len(q) < ChanCap
           THEN /\ keycodes' = Some(Append(q, k))
                /\ sig_break' = checkForCtrlC(sig_break, k)
                /\ last' = [op |-> "SaveKeyStroke", key |-> key, returned |-> TRUE]
                /\ UNCHANGED sender
           ELSE /\ keycodes' = Some(q)
                /\ sender' = [pc |-> "send", arg |-> key, key |-> k]
                /\ last' = [op |-> "SaveKeyStroke", key |-> key, returned |-> FALSE]
                /\ UNCHANGED sig_break
        /\ UNCHANGED <<KeySettings, inp, ind, spcKeys>>

\* The parked goroutine runs again after a receive took its bytes into the
\* channel: checkForCtrlC, then SaveKeyStroke returns.
SaveKeyStrokeResume ==
    /\ sender.pc = "sent"
    /\ sig_break' = checkForCtrlC(sig_break, sender.key)
    /\ sender' = Idle
    /\ last' = [op |-> "SaveKeyStroke", key |-> sender.arg, returned |-> TRUE]
    /\ UNCHANGED <<KeySettings, keycodes, inp, ind, spcKeys, nkeys>>

BreakSeen ==
    /\ HasBuffer
    /\ last' = [op |-> "BreakSeen", ret |-> sig_break]
    /\ UNCHANGED <<KeySettings, keycodes, inp, ind, sig_break, spcKeys, sender, nkeys>>

\* ClearBreak that also throws away the key sequence being read.
ClearBreakAndFlush ==
    /\ HasBuffer
    /\ sig_break' = FALSE
    /\ inp' = <<>>
    /\ ind' = 0
    /\ last' = [op |-> "ClearBreak"]
    /\ UNCHANGED <<KeySettings, keycodes, spcKeys, sender, nkeys>>

ClearBreak ==
    /\ HasBuffer
    /\ sig_break' = FALSE
    /\ last' = [op |-> "ClearBreak"]
    /\ UNCHANGED <<KeySettings, keycodes, inp, ind, spcKeys, sender, nkeys>>

NoData == [op |-> "ReadByte", b |-> 32, err |-> "no data"]

\* The select of ReadByte: a receive when the channel holds a sequence, the
\* default case otherwise.  A receive from a full channel with a parked
\* sender puts the sender's bytes at the tail and makes the sender runnable.
ReadByteSelectBlocking ==
    /\ Queue # <<>>
    /\ inp' = Head(Queue)
    /\ ind' = 1
    /\ last' = [op |-> "ReadByte", b |-> Head(Queue)[1], err |-> "nil"]
    /\ IF sender.pc = "send"
       THEN /\ keycodes' = Some(Append(Tail(Queue), sender.key))
            /\ sender' = [sender EXCEPT !.pc = "sent"]
       ELSE /\ keycodes' = Some(Tail(Queue))
            /\ UNCHANGED sender

ReadByteSelect ==
    IF Queue # <<>>
    THEN /\ inp' = Head(Queue)
         /\ ind' = 1
         /\ last' = [op |-> "ReadByte", b |-> Head(Queue)[1], err |-> "nil"]
         /\ IF sender.pc = "send"
            THEN /\ keycodes' = Some(Append(Tail(Queue), sender.key))
                 /\ sender' = [sender EXCEPT !.pc = "sent"]
            ELSE /\ keycodes' = Some(Tail(Queue))
                 /\ UNCHANGED sender
    ELSE /\ last' = NoData
         /\ UNCHANGED <<keycodes, inp, ind, sender>>

\* ReadByte that returns the byte before the one it steps over.
ReadByteStale ==
    /\ HasBuffer
    /\ IF inp # <<>> /\ ind < Len(inp)
       THEN /\ ind' = ind + 1
            /\ last' = [op |-> "ReadByte", b |-> inp[ind], err |-> "nil"]
            /\ UNCHANGED <<keycodes, inp, sender>>
       ELSE IF keycodes = Nil
       THEN /\ last' = NoData
            /\ UNCHANGED <<keycodes, inp, ind, sender>>
       ELSE ReadByteSelect
    /\ UNCHANGED <<KeySettings, sig_break, spcKeys, nkeys>>

ReadByte ==
    /\ HasBuffer
    /\ IF inp # <<>> /\ ind < Len(inp)
       THEN /\ ind' = ind + 1
            /\ last' = [op |-> "ReadByte", b |-> inp[ind + 1], err |-> "nil"]
            /\ UNCHANGED <<keycodes, inp, sender>>
       ELSE IF keycodes = Nil
       THEN /\ last' = NoData
            /\ UNCHANGED <<keycodes, inp, ind, sender>>
       ELSE ReadByteSelect
    /\ UNCHANGED <<KeySettings, sig_break, spcKeys, nkeys>>

\* var kbuff KeyBuffer: every field has its zero value.
KbInit ==
    /\ KeySettings = Nil
    /\ keycodes = Nil
    /\ inp = <<>>
    /\ ind = 0
    /\ sig_break = FALSE
    /\ spcKeys = <<>>
    /\ sender = Idle
    /\ last = [op |-> "none"]
    /\ nkeys = 0

KbNext ==
    \/ GetKeyBuffer
    \/ \E ks \in KeySettingsChoices : SetKeySettings(ks)
    \/ \E key \in KeySeqs : SaveKeyStroke(key)
    \/ SaveKeyStrokeResume
    \/ BreakSeen
    \/ ClearBreak
    \/ ReadByte

(***************************************************************************)
(* berrors.go: the const block.  Each line of the block is one entry, "_"  *)
(* for a blank one, and its value is iota + 1 with iota the 0-based index  *)
(* of the line.                                                            *)
(***************************************************************************)
ErrorConsts ==
    <<"NextWithoutFor", "Syntax", "ReturnWoGosub", "OutOfData", "IllegalFuncCallErr",
      "Overflow", "OutOfMemory", "UnDefinedLineNumber", "SubscriptRange",
      "DuplicateDefinition", "DivByZero", "IllegalDirect", "TypeMismatch", "StringSpace",
      "String2Long", "StringForm2Complex", "CantContinue", "UndefinedFunction", "NoResume",
      "ResumeWoError", "Unprintable", "MissingOp", "LineOverflow", "DeviceTimeout",
      "DeviceFault", "ForWoNext", "OutOfPaper", "UnprintableErr", "WhileWoWend",
      "WendWoWhile",
      "_", "_", "_", "_", "_", "_", "_", "_", "_", "_",
      "_", "_", "_", "_", "_", "_", "_", "_", "_",
      "FieldOverflow", "InternalErr", "BadFileNum", "FileNotFound",
      "_", "_", "_", "_", "_", "_", "_", "_",
      "_", "_", "_", "_", "_", "_", "_", "_", "_",
      "PermissionDenied",
      "_", "_", "_", "_", "_",
      "PathNotFound">>

\* The value of a named constant of the block.
ErrorCode(const) ==
    LET iota == (CHOOSE i \in 1..Len(ErrorConsts) : ErrorConsts[i] = const) - 1
    IN  iota + 1

\* TextForError: the switch, with its fall through to the last return.
TextForErrorNoPath(e) ==
    CASE e = ErrorCode("CantContinue") -> "Can't continue"
      [] e = ErrorCode("DivByZero") -> "Division by zero"
      [] e = ErrorCode("FileNotFound") -> "File not found"
      [] e = ErrorCode("IllegalDirect") -> "Illegal direct"
      [] e = ErrorCode("NextWithoutFor") -> "NEXT without FOR"
      [] e = ErrorCode("OutOfData") -> "Out of DATA"
      [] e = ErrorCode("Overflow") -> "Overflow"
      [] e = ErrorCode("ReturnWoGosub") -> "RETURN without GOSUB"
      [] e = ErrorCode("Syntax") -> "Syntax error"
      [] e = ErrorCode("TypeMismatch") -> "Type mismatch"
      [] e = ErrorCode("UnDefinedLineNumber") -> "Undefined line number"
      [] e = ErrorCode("PathNotFound") -> "File not found"
      [] OTHER -> "Unprintable error"

TextForError(e) ==
    CASE e = ErrorCode("CantContinue") -> "Can't continue"
      [] e = ErrorCode("DivByZero") -> "Division by zero"
      [] e = ErrorCode("FileNotFound") -> "File not found"
      [] e = ErrorCode("IllegalDirect") -> "Illegal direct"
      [] e = ErrorCode("NextWithoutFor") -> "NEXT without FOR"
      [] e = ErrorCode("OutOfData") -> "Out of DATA"
      [] e = ErrorCode("Overflow") -> "Overflow"
      [] e = ErrorCode("ReturnWoGosub") -> "RETURN without GOSUB"
      [] e = ErrorCode("Syntax") -> "Syntax error"
      [] e = ErrorCode("TypeMismatch") -> "Type mismatch"
      [] e = ErrorCode("UnDefinedLineNumber") -> "Undefined line number"
      [] e = ErrorCode("PathNotFound") -> "Path not found"
      [] OTHER -> "Unprintable error"

\* How far below 1 and above the last constant the codes passed in reach.
ErrMargin == 8

ErrCodes == (0 - ErrMargin)..(Len(ErrorConsts) + ErrMargin)

ErrInit ==
    /\ err \in ErrCodes
    /\ text = ""
    /\ epc = "call"

ErrOff ==
    /\ err = 0
    /\ text = ""
    /\ epc = "off"

CallTextForError ==
    /\ epc = "call"
    /\ text' = TextForError(err)
    /\ epc' = "done"
    /\ UNCHANGED err

(***************************************************************************)
(* token.go: the token types the parser of argument lists looks at.        *)
(***************************************************************************)
EOF == "EOF"
EOL == "EOL"
IDENT == "IDENT"
PLUS == "+"
COMMA == ","
COLON == ":"

(***************************************************************************)
(* parser: parseCommaSperatedExpressions and parseNextExpression, over the *)
(* Parser methods they call.                                               *)
(***************************************************************************)
Token(type, literal) == [Type |-> type, Literal |-> literal]

\* The lexer delivers EOF for ever once the input is used up.
Tok(i) == IF i \in 1..Len(toks) THEN toks[i] ELSE Token(EOF, "")

\* curTokenIs / peekTokenIs with the Parser at position p.
curTokenIs(p, t) == Tok(p).Type = t
peekTokenIs(p, t) == Tok(p + 1).Type = t

\* chkEndOfStatement: the statement ends at end of line, end of input or ":".
chkEndOfStatement(p) ==
    peekTokenIs(p, COLON) \/ peekTokenIs(p, EOL) \/ peekTokenIs(p, EOF)

\* An ast.Expression: nil, or a node with the text it was parsed from.
NilExpr == [kind |-> "nil"]
Node(lits) == [kind |-> "expr", text |-> lits]

\* parseExpression(LOWEST) with curToken at p: the longest run
\* operand (+ operand)* from p, leaving curToken on its last token; a token
\* that starts no expression is a Syntax error and gives nil.
RECURSIVE ExprEnd(_)
ExprEnd(p) ==
    IF peekTokenIs(p, PLUS) /\ curTokenIs(p + 2, IDENT) THEN ExprEnd(p + 2) ELSE p

parseExpression(p) ==
    IF curTokenIs(p, IDENT)
    THEN [node |-> Node([i \in 1..(ExprEnd(p) - p + 1) |-> Tok(p + i - 1).Literal]),
          pos |-> ExprEnd(p), errs |-> <<>>]
    ELSE [node |-> NilExpr, pos |-> p, errs |-> <<ErrorCode("Syntax")>>]

\* parseNextExpression: nil for a comma, the parsed expression otherwise.
parseNextExpression(p) ==
    IF curTokenIs(p, COMMA)
    THEN [node |-> NilExpr, pos |-> p, errs |-> <<>>]
    ELSE parseExpression(p)

\* "series can't end with a comma": whether Syntax is reported, with
\* curToken at p after the check for the end of the statement.
seriesEndsWithCommaAlways(done, p) == done

seriesEndsWithComma(done, p) == done /\ curTokenIs(p, COMMA)

\* One turn of the for loop of parseCommaSperatedExpressions: the body, then
\* the post statement p.nextToken(), then the test of done.
parseCommaSperatedExpressions ==
    /\ ppc = "loop"
    /\ LET e == parseNextExpression(pos)
           p1 == IF peekTokenIs(e.pos, COMMA) THEN e.pos + 1 ELSE e.pos
           done == chkEndOfStatement(p1)
       IN  /\ exp' = Append(exp, e.node)
           /\ perrors' = perrors \o e.errs
                           \o (IF seriesEndsWithComma(done, p1)
                               THEN <<ErrorCode("Syntax")>> ELSE <<>>)
           /\ pos' = p1 + 1
           /\ ppc' = IF done THEN "done" ELSE "loop"
    /\ UNCHANGED toks

\* ---- the argument lists that are parsed ----
\* How many argument positions a list has at most.
MaxArgs == 4

Ident(lit) == Token(IDENT, lit)

\* What is written at one position: nothing, or an expression.
ArgChoices ==
    {<<>>, <<Ident("A")>>, <<Ident("B")>>, <<Ident("A"), Token(PLUS, "+"), Ident("B")>>}

RECURSIVE JoinComma(_)
JoinComma(args) ==
    IF Len(args) = 1 THEN args[1]
    ELSE args[1] \o <<Token(COMMA, ",")>> \o JoinComma(Tail(args))

\* Every list of 1..MaxArgs positions but the one with no token at all.
ArgLists ==
    {JoinComma(args) : args \in UNION {[1..n -> ArgChoices] : n \in 1..MaxArgs}} \ {<<>>}

Terminators == {Token(EOL, ""), Token(EOF, ""), Token(COLON, ":")}

\* A statement's argument list is about to be parsed: curToken is its first
\* token.
ParserInit ==
    /\ toks \in {l \o <<t>> : l \in ArgLists, t \in Terminators}
    /\ pos = 1
    /\ exp = <<>>
    /\ perrors = <<>>
    /\ ppc = "loop"

ParserOff ==
    /\ toks = <<>>
    /\ pos = 0
    /\ exp = <<>>
    /\ perrors = <<>>
    /\ ppc = "off"

(***************************************************************************)
(* token.go: LookupIdent.  An identifier is a sequence of runes; a rune is *)
(* written as its character, and the four runes outside ASCII that Go's    *)
(* simple case mapping ties to an ASCII letter have names.                 *)
(***************************************************************************)
UpperLetters == <<"A", "B", "C", "D", "E", "F", "G", "H", "I", "J", "K", "L", "M",
                  "N", "O", "P", "Q", "R", "S", "T", "U", "V", "W", "X", "Y", "Z">>
LowerLetters == <<"a", "b", "c", "d", "e", "f", "g", "h", "i", "j", "k", "l", "m",
                  "n", "o", "p", "q", "r", "s", "t", "u", "v", "w", "x", "y", "z">>

DotlessI == "U+0131"    \* upper case I
DottedI == "U+0130"     \* lower case i
LongS == "U+017F"       \* upper case S
KelvinSign == "U+212A"  \* lower case k

\* unicode.ToLower and unicode.ToUpper on one rune.
ToLowerRune(r) ==
    IF \E i \in 1..26 : UpperLetters[i] = r
    THEN LowerLetters[CHOOSE i \in 1..26 : UpperLetters[i] = r]
    ELSE IF r = DottedI THEN "i"
    ELSE IF r = KelvinSign THEN "k"
    ELSE r

ToUpperRune(r) ==
    IF \E i \in 1..26 : LowerLetters[i] = r
    THEN UpperLetters[CHOOSE i \in 1..26 : LowerLetters[i] = r]
    ELSE IF r = DotlessI THEN "I"
    ELSE IF r = LongS THEN "S"
    ELSE r

\* strings.ToLower and strings.ToUpper: rune by rune.
ToLower(s) == [i \in 1..Len(s) |-> ToLowerRune(s[i])]
ToUpper(s) == [i \in 1..Len(s) |-> ToUpperRune(s[i])]

\* var keywords
keywords ==
    (<<"a", "l", "l">> :> "ALL") @@
    (<<"a", "u", "t", "o">> :> "AUTO") @@
    (<<"b", "e", "e", "p">> :> "BEEP") @@
    (<<"c", "h", "a", "i", "n">> :> "CHAIN") @@
    (<<"c", "l", "e", "a", "r">> :> "CLEAR") @@
    (<<"c", "l", "s">> :> "CLS") @@
    (<<"c", "o", "l", "o", "r">> :> "COLOR") @@
    (<<"c", "o", "m", "m", "o", "n">> :> "COMMON") @@
    (<<"c", "o", "n", "t">> :> "CONT") @@
    (<<"c", "s", "r", "l", "i", "n">> :> "CSRLIN") @@
    (<<"d", "a", "t", "a">> :> "DATA") @@
    (<<"d", "e", "f">> :> "DEF") @@
    (<<"d", "i", "m">> :> "DIM") @@
    (<<"e", "l", "s", "e">> :> "ELSE") @@
    (<<"e", "n", "d">> :> "END") @@
    (<<"f", "a", "l", "s", "e">> :> "FALSE") @@
    (<<"f", "i", "l", "e", "s">> :> "FILES") @@
    (<<"g", "o", "s", "u", "b">> :> "GOSUB") @@
    (<<"g", "o", "t", "o">> :> "GOTO") @@
    (<<"i", "f">> :> "IF") @@
    (<<"l", "e", "t">> :> "LET") @@
    (<<"l", "i", "s", "t">> :> "LIST") @@
    (<<"l", "o", "a", "d">> :> "LOAD") @@
    (<<"l", "o", "c", "a", "t", "e">> :> "LOCATE") @@
    (<<"m", "e", "r", "g", "e">> :> "MERGE") @@
    (<<"m", "o", "d">> :> "MOD") @@
    (<<"n", "e", "w">> :> "NEW") @@
    (<<"p", "a", "l", "e", "t", "t", "e">> :> "PALETTE") @@
    (<<"p", "r", "i", "n", "t">> :> "PRINT") @@
    (<<"r", "e", "a", "d">> :> "READ") @@
    (<<"r", "e", "m">> :> "REM") @@
    (<<"r", "e", "s", "t", "o", "r", "e">> :> "RESTORE") @@
    (<<"r", "e", "t", "u", "r", "n">> :> "RETURN") @@
    (<<"r", "u", "n">> :> "RUN") @@
    (<<"s", "c", "r", "e", "e", "n">> :> "SCREEN") @@
    (<<"s", "t", "o", "p">> :> "STOP") @@
    (<<"t", "h", "e", "n">> :> "THEN") @@
    (<<"t", "r", "o", "n">> :> "TRON") @@
    (<<"t", "r", "o", "f", "f">> :> "TROFF") @@
    (<<"t", "r", "u", "e">> :> "TRUE") @@
    (<<"u", "s", "i", "n", "g">> :> "USING")

LookupIdentExact(id) ==
    IF id \in DOMAIN keywords THEN keywords[id] ELSE IDENT

LookupIdent(id) ==
    IF ToLower(id) \in DOMAIN keywords THEN keywords[ToLower(id)] ELSE IDENT

\* ---- the identifiers that are looked up ----
\* How long the identifiers built from IdentRunes are at most.
MaxIdentLen == 2

IdentRunes == {"i", "I", "f", "F", DotlessI, DottedI, "x", "1"}

\* A keyword as written, in upper case, capitalised, and with the letters
\* i, s and k replaced by their relatives outside ASCII.
Capitalised(s) == [i \in 1..Len(s) |-> IF i = 1 THEN ToUpperRune(s[i]) ELSE s[i]]
Relative(r) ==
    CASE r = "i" -> DotlessI [] r = "I" -> DottedI [] r = "s" -> LongS
      [] r = "k" -> KelvinSign [] OTHER -> r
Spellings(s) ==
    {s, ToUpper(s), Capitalised(s), [i \in 1..Len(s) |-> Relative(s[i])],
     [i \in 1..Len(s) |-> Relative(ToUpperRune(s[i]))]}

Idents ==
    UNION {[1..n -> IdentRunes] : n \in 0..MaxIdentLen}
    \cup UNION {Spellings(k) : k \in DOMAIN keywords}

TokenInit ==
    /\ ident \in Idents
    /\ tok = ""
    /\ tpc = "call"

TokenOff ==
    /\ ident = <<>>
    /\ tok = ""
    /\ tpc = "off"

CallLookupIdent ==
    /\ tpc = "call"
    /\ tok' = LookupIdent(ident)
    /\ tpc' = "done"
    /\ UNCHANGED ident

(***************************************************************************)
(* fileserv.go: FormatFileName.  A string is its sequence of bytes; a byte *)
(* below 0x80 is written as its character, and the two bytes of the UTF-8  *)
(* encoding of U+00E9 stand for the bytes from 0x80 on.                    *)
(***************************************************************************)
LeadByte == "xC3"
ContByte == "xA9"

Rep(n, c) == [i \in 1..n |-> c]

\* strings.Split(s, "."): the parts between the periods, at least one part.
RECURSIVE Split(_)
Split(s) ==
    IF \A i \in 1..Len(s) : s[i] # "." THEN <<s>>
    ELSE LET d == CHOOSE i \in 1..Len(s) : s[i] = "." /\ \A j \in 1..(i - 1) : s[j] # "."
         IN  <<SubSeq(s, 1, d - 1)>> \o Split(SubSeq(s, d + 1, Len(s)))

\* The width in bytes of the rune that starts at byte i: a lead byte with
\* its continuation byte is one rune, every other byte is a rune of its own
\* (utf8.DecodeRuneInString gives a broken encoding the width 1).
RuneWidth(s, i) ==
    IF s[i] = LeadByte /\ i < Len(s) /\ s[i + 1] = ContByte THEN 2 ELSE 1

RECURSIVE RuneCountFrom(_, _)
RuneCountFrom(s, i) ==
    IF i > Len(s) THEN 0 ELSE 1 + RuneCountFrom(s, i + RuneWidth(s, i))

\* utf8.RuneCountInString
RuneCountInString(s) == RuneCountFrom(s, 1)

\* fmt's truncateString: s cut before its rune number prec + 1.
RECURSIVE TruncateFrom(_, _, _)
TruncateFrom(s, i, n) ==
    IF i > Len(s) THEN s
    ELSE IF n = 0 THEN SubSeq(s, 1, i - 1)
    ELSE TruncateFrom(s, i + RuneWidth(s, i), n - 1)

truncateString(s, prec) == TruncateFrom(s, 1, prec)

\* fmt's padString with the minus flag: blanks on the right up to wid runes.
padStringNone(s, wid) == s

padString(s, wid) ==
    IF wid > RuneCountInString(s) THEN s \o Rep(wid - RuneCountInString(s), " ") ELSE s

\* The verb %-W.Ps of fmt.Sprintf.
SprintfS(s, wid, prec) == padString(truncateString(s, prec), wid)

formatBaseName(n) == IF Len(n) > 8 THEN SubSeq(n, 1, 7) \o <<"+">> ELSE n

formatExtension(ext) == IF Len(ext) > 3 THEN SubSeq(ext, 1, 3) ELSE ext

setDirTag(d) == IF d THEN <<"<", "d", "i", "r", ">">> ELSE <<" ", " ", " ", " ">>

FormatFileName(n, d) ==
    LET split == Split(n)
        prts == IF Len(split) = 1 THEN Append(split, <<" ">>) ELSE split
    IN  SprintfS(formatBaseName(prts[1]), 8, 8) \o <<".">>
        \o SprintfS(formatExtension(prts[2]), 3, 3) \o setDirTag(d)

\* ---- the names that are rendered ----
\* How many characters the part before the first period and the part after
\* it have at most.
MaxBaseLen == 9
MaxExtLen == 4

EAcute == <<LeadByte, ContByte>>

\* n times the bytes of one character.
RECURSIVE RepChar(_, _)
RepChar(n, c) == IF n = 0 THEN <<>> ELSE c \o RepChar(n - 1, c)

BaseNames ==
    {RepChar(i, <<"a">>) \o RepChar(j, EAcute) \o RepChar(k, <<"b">>) :
        i \in 0..MaxBaseLen, j \in 0..MaxBaseLen, k \in 0..MaxBaseLen} \ {<<>>}

Extensions ==
    {RepChar(i, <<"a">>) \o RepChar(j, EAcute) : i \in 0..MaxExtLen, j \in 0..MaxExtLen}

CharCount(s) == RuneCountInString(s)

FileNames ==
    LET bases == {b \in BaseNames \cup {<<>>} : CharCount(b) <= MaxBaseLen}
        exts == {e \in Extensions : CharCount(e) <= MaxExtLen}
    IN  bases
        \cup {b \o <<".">> \o e : b \in bases, e \in exts}
        \cup {b \o <<".">> \o e \o <<".", "t", "m", "p">> : b \in bases, e \in exts}

FormatInit ==
    /\ name \in FileNames
    /\ isDir \in BOOLEAN
    /\ output = <<>>
    /\ fpc = "call"

FormatOff ==
    /\ name = <<>>
    /\ isDir = FALSE
    /\ output = <<>>
    /\ fpc = "off"

CallFormatFileName ==
    /\ fpc = "call"
    /\ output' = FormatFileName(name, isDir)
    /\ fpc' = "done"
    /\ UNCHANGED <<name, isDir>>

(***************************************************************************)
(* fileserv.go: the server side.  fs.src is the environment: under the     *)
(* requested name it holds nothing, something that may not be opened, a    *)
(* file whose Stat fails, a directory or a regular file.  A string is a    *)
(* sequence of characters.                                                 *)
(***************************************************************************)
HasPrefix(s, prefix) == Len(s) >= Len(prefix) /\ SubSeq(s, 1, Len(prefix)) = prefix

\* strings.Split(s, sep) for a separator of one character.
RECURSIVE SplitSep(_, _)
SplitSep(s, sep) ==
    IF \A i \in 1..Len(s) : s[i] # sep THEN <<s>>
    ELSE LET d == CHOOSE i \in 1..Len(s) : s[i] = sep /\ \A j \in 1..(i - 1) : s[j] # sep
         IN  <<SubSeq(s, 1, d - 1)>> \o SplitSep(SubSeq(s, d + 1, Len(s)), sep)

containsDotFileFirstPart(n) == HasPrefix(SplitSep(n, "/")[1], <<".">>)

containsDotFile(n) ==
    LET parts == SplitSep(n, "/")
    IN  \E i \in 1..Len(parts) : HasPrefix(parts[i], <<".">>)

\* os.FileInfo of a directory entry.
FileInfo(n, d) == [name |-> n, isdir |-> d]

\* What fs.src can hold under a name.
Missing == [kind |-> "missing", err |-> "ErrNotExist", entries |-> <<>>, ok |-> FALSE, content |-> <<>>]
Denied == [kind |-> "denied", err |-> "ErrPermission", entries |-> <<>>, ok |-> FALSE, content |-> <<>>]
NoStat == [kind |-> "nostat", err |-> "nil", entries |-> <<>>, ok |-> FALSE, content |-> <<>>]
Directory(es, readdirOk) ==
    [kind |-> "dir", err |-> "nil", entries |-> es, ok |-> readdirOk, content |-> <<>>]
RegularFile(c, readOk) ==
    [kind |-> "file", err |-> "nil", entries |-> <<>>, ok |-> readOk, content |-> c]

\* fs.src.Open(n): the file, or the error of the file system.
srcOpen(obj) ==
    IF obj.kind \in {"missing", "denied"} THEN [file |-> Nil, err |-> obj.err]
    ELSE [file |-> Some(obj), err |-> "nil"]

\* http.File.Readdir(-1) of the file system: the entries and no error, or an
\* error with the entries read before it; a regular file has none.
srcReaddir(obj) ==
    IF obj.kind = "dir" THEN [fis |-> obj.entries, err |-> IF obj.ok THEN "nil" ELSE "EIO"]
    ELSE [fis |-> <<>>, err |-> "ENOTDIR"]

\* dotFileHidingFile.Readdir
dotFileHidingFileReaddir(f) ==
    LET r == srcReaddir(f)
    IN  [fis |-> SelectSeq(r.fis, LAMBDA file : ~HasPrefix(file.name, <<".">>)),
         err |-> r.err]

\* fileSource.Open: the wrapped file and the calls made on fs.src.
Open(n, obj) ==
    IF containsDotFile(n)
    THEN [file |-> Nil, err |-> "ErrPermission", calls |-> <<>>]
    ELSE LET r == srcOpen(obj)
         IN  IF r.err # "nil"
             THEN [file |-> Nil, err |-> r.err, calls |-> << <<"Open", n>> >>]
             ELSE [file |-> Some([dotFileHidingFile |-> Val(r.file)]), err |-> "nil",
                   calls |-> << <<"Open", n>> >>]

\* httptest.NewRecorder() / a fresh http.ResponseWriter
NewRecorder == [status |-> 0, ctype |-> Nil, body |-> <<>>, calls |-> <<>>]

\* w.WriteHeader(code): the first status code counts.
WriteHeader(w, code) ==
    [w EXCEPT !.status = IF w.status = 0 THEN code ELSE w.status,
              !.calls = Append(w.calls, "WriteHeader")]

\* w.Header().Set("Content-Type", t): of no effect once the header is out.
SetContentType(w, t) == IF w.status = 0 THEN [w EXCEPT !.ctype = Some(t)] ELSE w

\* w.Write(b): sends the header with 200 when none was sent.
Write(w, b) ==
    [w EXCEPT !.status = IF w.status = 0 THEN 200 ELSE w.status,
              !.body = w.body \o b,
              !.calls = Append(w.calls, "Write")]

\* filelist: AddFile keeps the entry's name and directory flag; JSON renders
\* the entries in the order they were added, between brackets.
NewFileList == <<>>
AddFile(fl, finfo) == Append(fl, finfo)
JSON(fl) == <<"[">> \o [i \in 1..Len(fl) |-> <<fl[i].name, fl[i].isdir>>] \o <<"]">>

\* The loop of sendDirectory over files[i..].
RECURSIVE sendDirectoryLoop(_, _)
sendDirectoryLoop(fl, files) ==
    IF files = <<>> THEN fl
    ELSE sendDirectoryLoop(IF ~containsDotFile(Head(files).name)
                           THEN AddFile(fl, Head(files)) ELSE fl,
                           Tail(files))

sendDirectoryIgnoreErr(hfile, w) ==
    LET r == dotFileHidingFileReaddir(hfile.dotFileHidingFile)
        fl == sendDirectoryLoop(NewFileList, r.fis)
    IN  Write(SetContentType(w, "application/json"), JSON(fl))

sendDirectory(hfile, w) ==
    LET r == dotFileHidingFileReaddir(hfile.dotFileHidingFile)
    IN  IF r.err # "nil" THEN WriteHeader(w, 404)
        ELSE LET fl == sendDirectoryLoop(NewFileList, r.fis)
             IN  Write(SetContentType(w, "application/json"), JSON(fl))

\* serveFile: the response and the calls made on fs.src.
serveFileStat404(w, fname, mimetype, obj) ==
    LET n == IF Len(fname) = 0 THEN <<"/">> ELSE fname
        o == Open(n, obj)
    IN  IF o.err # "nil" THEN [w |-> WriteHeader(w, 404), calls |-> o.calls]
        ELSE LET f == Val(o.file).dotFileHidingFile
             IN  IF f.kind = "nostat" THEN [w |-> WriteHeader(w, 404), calls |-> o.calls]
                 ELSE IF f.kind = "dir"
                 THEN [w |-> sendDirectory(Val(o.file), w), calls |-> o.calls]
                 ELSE IF ~f.ok THEN [w |-> WriteHeader(w, 503), calls |-> o.calls]
                 ELSE [w |-> Write(IF Len(mimetype) > 0
                                   THEN SetContentType(w, mimetype) ELSE w, f.content),
                       calls |-> o.calls]

serveFile(w, fname, mimetype, obj) ==
    LET n == IF Len(fname) = 0 THEN <<"/">> ELSE fname
        o == Open(n, obj)
    IN  IF o.err # "nil" THEN [w |-> WriteHeader(w, 404), calls |-> o.calls]
        ELSE LET f == Val(o.file).dotFileHidingFile
             IN  IF f.kind = "nostat" THEN [w |-> WriteHeader(w, 500), calls |-> o.calls]
                 ELSE IF f.kind = "dir"
                 THEN [w |-> sendDirectory(Val(o.file), w), calls |-> o.calls]
                 ELSE IF ~f.ok THEN [w |-> WriteHeader(w, 503), calls |-> o.calls]
                 ELSE [w |-> Write(IF Len(mimetype) > 0
                                   THEN SetContentType(w, mimetype) ELSE w, f.content),
                       calls |-> o.calls]

\* ---- what the callers pass in and what the file system holds ----
MaxNameLen == 3
MaxEntries == 2

RECURSIVE SeqsUpTo(_, _)
SeqsUpTo(S, n) ==
    IF n = 0 THEN {<<>>}
    ELSE LET shorter == SeqsUpTo(S, n - 1)
         IN  shorter \cup {Append(q, x) : q \in shorter, x \in S}

RequestNames == SeqsUpTo({".", "/", "a"}, MaxNameLen)

MimeTypes == {"", "text/plain; charset=ASCII"}

DirEntries ==
    {FileInfo(<<"a">>, FALSE), FileInfo(<<".", "b">>, FALSE),
     FileInfo(<<"d">>, TRUE), FileInfo(<<".", "e">>, TRUE)}

DiskObjects ==
    {Missing, Denied, NoStat}
    \cup {Directory(es, k) : es \in SeqsUpTo(DirEntries, MaxEntries), k \in BOOLEAN}
    \cup {RegularFile(c, k) : c \in {<<>>, <<104, 105>>}, k \in BOOLEAN}

ServeInit ==
    /\ rqName \in RequestNames
    /\ rqType \in MimeTypes
    /\ disk \in DiskObjects
    /\ opened = [file |-> Nil, err |-> "nil"]
    /\ rw = NewRecorder
    /\ srcCalls = <<>>
    /\ spc = "call"

ServeOff ==
    /\ rqName = <<>>
    /\ rqType = ""
    /\ disk = Missing
    /\ opened = [file |-> Nil, err |-> "nil"]
    /\ rw = NewRecorder
    /\ srcCalls = <<>>
    /\ spc = "off"

CallOpen ==
    /\ spc = "call"
    /\ LET o == Open(rqName, disk)
       IN  /\ opened' = [file |-> o.file, err |-> o.err]
           /\ srcCalls' = o.calls
    /\ spc' = "Open"
    /\ UNCHANGED <<rqName, rqType, disk, rw>>

\* sendDirectory is handed a file that fileSource.Open has opened.
CallSendDirectory ==
    /\ spc = "call"
    /\ Open(rqName, disk).err = "nil"
    /\ rw' = sendDirectory(Val(Open(rqName, disk).file), rw)
    /\ spc' = "sendDirectory"
    /\ UNCHANGED <<rqName, rqType, disk, opened, srcCalls>>

CallServeFile ==
    /\ spc = "call"
    /\ LET r == serveFile(rw, rqName, rqType, disk)
       IN  /\ rw' = r.w
           /\ srcCalls' = r.calls
    /\ spc' = "serveFile"
    /\ UNCHANGED <<rqName, rqType, disk, opened>>

(***************************************************************************)
(* fileserv.go: convertDrive, with path.Join and path.Clean as the Go       *)
(* library computes them.  Indices are 1-based: Go's path[r] is p[r + 1].  *)
(***************************************************************************)
\* strings.ReplaceAll(s, `\`, "/")
ReplaceAll(s) == [i \in 1..Len(s) |-> IF s[i] = "\\" THEN "/" ELSE s[i]]

\* unicode.IsLetter, for the characters of ASCII
IsLetter(c) == c \in Range(UpperLetters) \cup Range(LowerLetters)

checkForDriveLetterOnly(p) == Len(p) >= 1 /\ IsLetter(p[1])

checkForDrive(p) ==
    IF Len(p) < 2 THEN FALSE
    ELSE IsLetter(p[1]) /\ p[2] = ":"

\* path.Clean, ".." case: out.w after stepping back over the last element.
RECURSIVE CleanBack(_, _, _)
CleanBack(out, w, dotdot) ==
    IF w > dotdot /\ out[w + 1] # "/" THEN CleanBack(out, w - 1, dotdot) ELSE w

\* path.Clean, the loop: r is the 1-based read position, out the buffer.
RECURSIVE CleanLoop(_, _, _, _, _)
CleanLoop(p, r, out, dotdot, rooted) ==
    LET n == Len(p)
    IN  IF r > n THEN out
        ELSE IF p[r] = "/" THEN CleanLoop(p, r + 1, out, dotdot, rooted)
        ELSE IF p[r] = "." /\ (r = n \/ p[r + 1] = "/")
        THEN CleanLoop(p, r + 1, out, dotdot, rooted)
        ELSE IF p[r] = "." /\ p[r + 1] = "." /\ (r + 1 = n \/ p[r + 2] = "/")
        THEN IF Len(out) > dotdot
             THEN CleanLoop(p, r + 2,
                            SubSeq(out, 1, CleanBack(out, Len(out) - 1, dotdot)),
                            dotdot, rooted)
             ELSE IF ~rooted
             THEN LET o == (IF Len(out) > 0 THEN Append(out, "/") ELSE out) \o <<".", ".">>
                  IN  CleanLoop(p, r + 2, o, Len(o), rooted)
             ELSE CleanLoop(p, r + 2, out, dotdot, rooted)
        ELSE LET o == IF (rooted /\ Len(out) # 1) \/ (~rooted /\ Len(out) # 0)
                      THEN Append(out, "/") ELSE out
                 ends == {i \in r..n : p[i] = "/"}
                 e == IF ends = {} THEN n + 1
                      ELSE CHOOSE i \in ends : \A j \in ends : i <= j
             IN  CleanLoop(p, e, o \o SubSeq(p, r, e - 1), dotdot, rooted)

\* path.Clean
Clean(p) ==
    IF p = <<>> THEN <<".">>
    ELSE LET rooted == p[1] = "/"
             out == IF rooted
                    THEN CleanLoop(p, 2, <<"/">>, 1, TRUE)
                    ELSE CleanLoop(p, 1, <<>>, 0, FALSE)
         IN  IF Len(out) = 0 THEN <<".">> ELSE out

\* path.Join: the non-empty elements with a slash between them, cleaned.
RECURSIVE JoinBuf(_, _)
JoinBuf(buf, elem) ==
    IF elem = <<>> THEN buf
    ELSE LET e == Head(elem)
         IN  JoinBuf(IF Len(buf) > 0 \/ e # <<>>
                     THEN (IF Len(buf) > 0 THEN Append(buf, "/") ELSE buf) \o e
                     ELSE buf,
                     Tail(elem))

Join(elem) ==
    IF \A i \in 1..Len(elem) : elem[i] = <<>> THEN <<>>
    ELSE Clean(JoinBuf(<<>>, elem))

\* "drive" + strings.ToUpper(s[0:1])
DriveOf(s) == <<"d", "r", "i", "v", "e">> \o ToUpper(SubSeq(s, 1, 1))

convertDriveNoReplace(t, c) ==
    IF Len(t) = 0 THEN DriveOf(ReplaceAll(c))
    ELSE IF checkForDrive(t) THEN Join(<<DriveOf(t), SubSeq(t, 3, Len(t))>>)
         ELSE IF t[1] = "/" THEN Join(<<DriveOf(c), t>>)
         ELSE LET c2 == ReplaceAll(c)
              IN  Join(<<DriveOf(c2), SubSeq(c2, 3, Len(c2)), t>>)

convertDrive(t, c) ==
    IF Len(t) = 0 THEN DriveOf(ReplaceAll(c))
    ELSE LET t2 == ReplaceAll(t)
         IN  IF checkForDrive(t2) THEN Join(<<DriveOf(t2), SubSeq(t2, 3, Len(t2))>>)
             ELSE IF t2[1] = "/" THEN Join(<<DriveOf(c), t2>>)
             ELSE LET c2 == ReplaceAll(c)
                  IN  Join(<<DriveOf(c2), SubSeq(c2, 3, Len(c2)), t2>>)

\* ---- what the callers pass in ----
MaxTargetLen == 4
MaxCwdLen == 2

Targets == SeqsUpTo({"c", ":", "\\", "/", "."}, MaxTargetLen)

\* The working directory is a drive spec and a DOS path on that drive.
Cwds ==
    {<<l, ":">> \o tl : l \in {"c", "D"}, tl \in SeqsUpTo({"\\", ".", "x"}, MaxCwdLen)}

DriveInit ==
    /\ target \in Targets
    /\ cwd \in Cwds
    /\ url = <<>>
    /\ dpc = "call"

DriveOff ==
    /\ target = <<>>
    /\ cwd = <<>>
    /\ url = <<>>
    /\ dpc = "off"

CallConvertDrive ==
    /\ dpc = "call"
    /\ url' = convertDrive(target, cwd)
    /\ dpc' = "done"
    /\ UNCHANGED <<target, cwd>>

(***************************************************************************)
(* fileserv.go: wrapSubDirs and wrapADir, one step per call on the file    *)
(* system or the router.  The file system is the environment: each call    *)
(* on it succeeds or fails.  A path is the sequence of its segments.       *)
(***************************************************************************)
MaxDepth == 2
MaxWrapEntries == 2

\* What Readdir can return: entries with different names.
WrapNames == {<<".", "g">>, <<"a">>, <<"b">>}

WrapFiles ==
    {fl \in SeqsUpTo(WrapNames, MaxWrapEntries) :
        \A i, j \in 1..Len(fl) : i # j => fl[i] # fl[j]}

Frame(pth, fl, k) == [path |-> pth, files |-> fl, done |-> k]

Top == wstack[Len(wstack)]

\* The entry the loop of wrapADir stands at.
Entry == Top.files[Top.done + 1]

Event(o, n, k, d) == [op |-> o, name |-> n, ok |-> k, isdir |-> d]

\* `continue` and the end of the loop body: the next entry, or the return
\* of wrapADir and wrapSubDirs after the last one.
Continue ==
    /\ wstack' = [wstack EXCEPT ![Len(wstack)].done = @ + 1]
    /\ wpc' = IF Top.done + 1 < Len(Top.files) THEN "name" ELSE "return"

\* hfile, err := fs.src.Open("/")
WrapOpenRoot ==
    /\ wpc = "open"
    /\ \E k \in BOOLEAN :
        /\ wlast' = Event("OpenRoot", <<"/">>, k, FALSE)
        /\ wpc' = IF k THEN "readdir" ELSE "return"
    /\ UNCHANGED <<wstack, routes>>

\* files, err := hfile.Readdir(-1), and the entry into wrapADir
WrapReaddir ==
    /\ wpc = "readdir"
    /\ \E k \in BOOLEAN, fl \in WrapFiles :
        /\ wlast' = Event("Readdir", <<>>, k, FALSE)
        /\ wstack' = [wstack EXCEPT ![Len(wstack)].files = IF k THEN fl ELSE <<>>]
        /\ wpc' = IF k /\ fl # <<>> THEN "name" ELSE "return"
    /\ UNCHANGED routes

\* finfo.Name() without the check for a dot file.
WrapNameNoDotCheck ==
    /\ wpc = "name"
    /\ wlast' = Event("Name", Entry, TRUE, FALSE)
    /\ wpc' = "openEntry"
    /\ UNCHANGED <<wstack, routes>>

\* containsDotFile(finfo.Name())
WrapName ==
    /\ wpc = "name"
    /\ wlast' = Event("Name", Entry, TRUE, FALSE)
    /\ IF containsDotFile(Entry)
       THEN Continue
       ELSE wpc' = "openEntry" /\ UNCHANGED wstack
    /\ UNCHANGED routes

\* tFile, err := fs.src.Open(finfo.Name())
WrapOpenEntry ==
    /\ wpc = "openEntry"
    /\ \E k \in BOOLEAN :
        /\ wlast' = Event("Open", Entry, k, FALSE)
        /\ IF k THEN wpc' = "stat" /\ UNCHANGED wstack
           ELSE Continue
    /\ UNCHANGED routes

\* info, err := tFile.Stat(); info.IsDir().  Directories nest MaxDepth deep.
WrapStat ==
    /\ wpc = "stat"
    /\ \E k \in BOOLEAN, d \in BOOLEAN :
        /\ d => k /\ Len(wstack) < MaxDepth
        /\ wlast' = Event("Stat", Entry, k, d)
        /\ IF k /\ d THEN wpc' = "wrap" /\ UNCHANGED wstack
           ELSE Continue
    /\ UNCHANGED routes

\* The four routes fullyWrapSource registers for a path.
fullyWrapSource(pth) ==
    {<<pth, "">>, <<pth, "/">>, <<pth, "/{file}.{ext}">>, <<pth, "/{file}">>}

\* nfs.fullyWrapSource(rtr, subpath) and the call nfs.wrapSubDirs
WrapDir ==
    /\ wpc = "wrap"
    /\ LET subpath == Append(Top.path, Entry)
       IN  /\ routes' = routes \cup fullyWrapSource(subpath)
           /\ wlast' = Event("HandleFunc", Entry, TRUE, TRUE)
           /\ wstack' = Append([wstack EXCEPT ![Len(wstack)].done = @ + 1],
                               Frame(subpath, <<>>, 0))
    /\ wpc' = "open"

\* wrapSubDirs returns: to the loop of the caller, or to WrapFileSources.
WrapReturn ==
    /\ wpc = "return"
    /\ wlast' = Event("Return", <<>>, TRUE, FALSE)
    /\ wstack' = SubSeq(wstack, 1, Len(wstack) - 1)
    /\ wpc' = IF Len(wstack) = 1 THEN "done"
              ELSE LET caller == wstack[Len(wstack) - 1]
                   IN  IF caller.done < Len(caller.files) THEN "name" ELSE "return"
    /\ UNCHANGED routes

\* WrapFileSources: fs.fullyWrapSource(rtr, path); fs.wrapSubDirs(rtr, *drv, path)
WrapInit ==
    /\ wstack = <<Frame(<<"driveC">>, <<>>, 0)>>
    /\ wpc = "open"
    /\ wlast = Event("HandleFunc", <<"driveC">>, TRUE, TRUE)
    /\ routes = fullyWrapSource(<<"driveC">>)

WrapOff ==
    /\ wstack = <<>>
    /\ wpc = "off"
    /\ wlast = Event("none", <<>>, TRUE, FALSE)
    /\ routes = {}

(***************************************************************************)
(* Specifications: one per package.  The packages a specification does not *)
(* run stay as they are.                                                   *)
(***************************************************************************)
Init ==
    /\ KbInit /\ ParserOff /\ ErrOff /\ TokenOff
    /\ FormatOff /\ ServeOff /\ DriveOff /\ WrapOff

Next ==
    /\ KbNext
    /\ UNCHANGED <<parserVars, errVars, tokenVars, formatVars, serveVars, driveVars, wrapVars>>

Spec == Init /\ [][Next]_vars

ParserNext ==
    /\ parseCommaSperatedExpressions
    /\ UNCHANGED <<kbVars, errVars, tokenVars, formatVars, serveVars, driveVars, wrapVars>>

InitParser ==
    /\ KbInit /\ ParserInit /\ ErrOff /\ TokenOff
    /\ FormatOff /\ ServeOff /\ DriveOff /\ WrapOff

SpecParser == InitParser /\ [][ParserNext]_vars

ErrNext ==
    /\ CallTextForError
    /\ UNCHANGED <<kbVars, parserVars, tokenVars, formatVars, serveVars, driveVars, wrapVars>>

InitErrors ==
    /\ KbInit /\ ParserOff /\ ErrInit /\ TokenOff
    /\ FormatOff /\ ServeOff /\ DriveOff /\ WrapOff

SpecErrors == InitErrors /\ [][ErrNext]_vars

TokenNext ==
    /\ CallLookupIdent
    /\ UNCHANGED <<kbVars, parserVars, errVars, formatVars, serveVars, driveVars, wrapVars>>

InitToken ==
    /\ KbInit /\ ParserOff /\ ErrOff /\ TokenInit
    /\ FormatOff /\ ServeOff /\ DriveOff /\ WrapOff

SpecToken == InitToken /\ [][TokenNext]_vars

FormatNext ==
    /\ CallFormatFileName
    /\ UNCHANGED <<kbVars, parserVars, errVars, tokenVars, serveVars, driveVars, wrapVars>>

InitFormat ==
    /\ KbInit /\ ParserOff /\ ErrOff /\ TokenOff
    /\ FormatInit /\ ServeOff /\ DriveOff /\ WrapOff

SpecFormat == InitFormat /\ [][FormatNext]_vars

ServeNext ==
    /\ \/ CallOpen
       \/ CallSendDirectory
       \/ CallServeFile
    /\ UNCHANGED <<kbVars, parserVars, errVars, tokenVars, formatVars, driveVars, wrapVars>>

InitServe ==
    /\ KbInit /\ ParserOff /\ ErrOff /\ TokenOff
    /\ FormatOff /\ ServeInit /\ DriveOff /\ WrapOff

SpecServe == InitServe /\ [][ServeNext]_vars

DriveNext ==
    /\ CallConvertDrive
    /\ UNCHANGED <<kbVars, parserVars, errVars, tokenVars, formatVars, serveVars, wrapVars>>

InitDrive ==
    /\ KbInit /\ ParserOff /\ ErrOff /\ TokenOff
    /\ FormatOff /\ ServeOff /\ DriveInit /\ WrapOff

SpecDrive == InitDrive /\ [][DriveNext]_vars

WrapNext ==
    /\ \/ WrapOpenRoot
       \/ WrapReaddir
       \/ WrapName
       \/ WrapOpenEntry
       \/ WrapStat
       \/ WrapDir
       \/ WrapReturn
    /\ UNCHANGED <<kbVars, parserVars, errVars, tokenVars, formatVars, serveVars, driveVars>>

InitWrap ==
    /\ KbInit /\ ParserOff /\ ErrOff /\ TokenOff
    /\ FormatOff /\ ServeOff /\ DriveOff /\ WrapInit

SpecWrap == InitWrap /\ [][WrapNext]_vars

(***************************************************************************)
(* Key buffer claims                                                       *)
(***************************************************************************)
RECURSIVE Flatten(_)
Flatten(q) == IF q = <<>> THEN <<>> ELSE Head(q) \o Flatten(Tail(q))

\* The bytes ReadByte has not returned yet: the rest of the current key
\* sequence, then the sequences in the channel, oldest first.
Unread == SubSeq(inp, ind + 1, Len(inp)) \o Flatten(Queue)

\* C1: a SaveKeyStroke call whose key sequence contains the byte 0x03 sets
\* the break flag, whatever the state of the queue and whatever the sequence
\* starts with.
C1_CtrlCSetsBreak ==
    (last.op = "SaveKeyStroke" /\ CtrlC \in Range(last.key)) => sig_break

\* C2: ReadByte never waits.  It can be called in every state of the buffer,
\* it returns the "no data" error exactly when no unread byte is available,
\* and otherwise it returns the oldest unread byte with no error.
C2_ReadByteNeverWaits ==
    /\ [](HasBuffer => ENABLED ReadByte)
    /\ [][last'.op = "ReadByte" =>
            IF Unread = <<>>
            THEN last'.err = "no data"
            ELSE last'.err = "nil" /\ last'.b = Head(Unread)]_vars

\* A ReadByte call on a created, drained queue with the current key sequence
\* fully consumed has answered "no data".
C2_Witness ==
    /\ last.op = "ReadByte" /\ last.err = "no data"
    /\ keycodes # Nil /\ Queue = <<>>
    /\ inp # <<>> /\ ind = Len(inp)

\* The 14 escape sequences of the function keys, F1 first.
FunctionKeyPatterns ==
    << <<27, 79, 80>>, <<27, 79, 81>>, <<27, 79, 82>>, <<27, 79, 83>>,
       <<27, 91, 49, 53, 126>>, <<27, 91, 49, 55, 126>>, <<27, 91, 49, 56, 126>>,
       <<27, 91, 49, 57, 126>>, <<27, 91, 50, 48, 126>>, <<27, 91, 50, 49, 126>>,
       <<27, 91, 65>>, <<27, 91, 68>>, <<27, 91, 67>>, <<27, 91, 66>> >>

FunctionKeyLabels ==
    <<"F1", "F2", "F3", "F4", "F5", "F6", "F7", "F8", "F9", "F10", "F11", "F12", "F13", "F14">>

\* The macro text configured for the function key that sends key: empty when
\* KeySettings is unset, key is no function key, or the key has no macro.
ConfiguredMacro(key) ==
    IF KeySettings = Nil THEN <<>>
    ELSE LET hits == {i \in 1..14 : /\ FunctionKeyPatterns[i] = key
                                    /\ FunctionKeyLabels[i] \in DOMAIN Val(KeySettings).Keys}
         IN  IF hits = {} THEN <<>>
             ELSE Val(KeySettings).Keys[FunctionKeyLabels[CHOOSE i \in hits : TRUE]]

\* C3: a SaveKeyStroke call with an escape sequence of more than one byte
\* queues exactly the configured macro text, and nothing when there is none;
\* on a full channel the macro text waits in the sender and is what enters
\* the channel at the next receive.
C3_EscapeQueuesMacro ==
    [][/\ (last'.op = "SaveKeyStroke" /\ sender = Idle
            /\ Len(last'.key) > 1 /\ last'.key[1] = Esc) =>
              LET mac == ConfiguredMacro(last'.key)
              IN  IF mac = <<>> THEN Queue' = Queue /\ sender' = Idle
                  ELSE IF Len(Queue) < ChanCap
                  THEN Queue' = Append(Queue, mac) /\ sender' = Idle
                  ELSE Queue' = Queue /\ sender' = [pc |-> "send", arg |-> last'.key, key |-> mac]
       /\ (sender.pc = "send" /\ sender'.pc = "sent") =>
              Queue' = Append(Tail(Queue), sender.key)]_vars

\* The F1 sequence was passed with a macro configured, and the macro text is
\* the newest sequence in the channel.
C3_Witness ==
    /\ last.op = "SaveKeyStroke" /\ last.key = F1Seq /\ last.returned
    /\ KeySettings # Nil /\ ConfiguredMacro(F1Seq) = <<66, 67>>
    /\ Queue # <<>> /\ Queue[Len(Queue)] = <<66, 67>>

\* Every byte that was queued and not returned yet, oldest first: the unread
\* bytes, then the bytes a parked SaveKeyStroke call still holds.
Pending == Unread \o (IF sender.pc = "send" THEN sender.key ELSE <<>>)

\* The bytes a SaveKeyStroke call has to queue: the key sequence itself, or
\* the configured macro text for an escape sequence of more than one byte.
ToQueue(key) == IF Len(key) > 1 /\ key[1] = Esc THEN ConfiguredMacro(key) ELSE key

\* C16: the key buffer is first-in first-out at byte level.  Every
\* SaveKeyStroke call puts its bytes behind all bytes queued before, every
\* successful ReadByte call returns and removes the oldest queued byte, and
\* no other step adds, removes or reorders a queued byte.
C16_FirstInFirstOut ==
    [][/\ (last'.op = "ReadByte" /\ last'.err = "nil") =>
              /\ Pending # <<>>
              /\ last'.b = Head(Pending)
              /\ Pending' = Tail(Pending)
       /\ (last'.op = "SaveKeyStroke" /\ sender = Idle) =>
              Pending' = Pending \o ToQueue(last'.key)
       /\ ~(last'.op = "ReadByte" /\ last'.err = "nil")
             /\ ~(last'.op = "SaveKeyStroke" /\ sender = Idle) =>
              Pending' = Pending]_vars

\* The second byte of a two byte macro text has just been returned while
\* later key sequences wait behind it in the channel.
C16_Witness ==
    /\ last.op = "ReadByte" /\ last.err = "nil" /\ last.b = 67
    /\ inp = <<66, 67>> /\ ind = 2
    /\ Queue # <<>>

\* C17 as claimed: the channel never holds more than 20 key sequences, and
\* every SaveKeyStroke call made while it holds 20 stays inside the call
\* with the queue and the break flag as they were, until a ReadByte call
\* takes a sequence out.
C17_FullQueueBlocks ==
    /\ [](Len(Queue) <= 20)
    /\ [][/\ (last'.op = "SaveKeyStroke" /\ sender = Idle /\ Len(Queue) = 20) =>
                 /\ ~last'.returned
                 /\ Queue' = Queue /\ sig_break' = sig_break
          /\ (sender.pc = "send" /\ sender' # sender) =>
                 last'.op = "ReadByte" /\ last'.err = "nil" /\ Len(Queue') = 20]_vars

\* C17 as amended: the same for the SaveKeyStroke calls that have bytes to
\* queue; a call with nothing to queue (an empty key sequence, an escape
\* sequence without macro text) returns at once and changes nothing.
C17_FullQueueBlocksSender ==
    /\ [](Len(Queue) <= 20)
    /\ [][/\ (last'.op = "SaveKeyStroke" /\ sender = Idle /\ Len(Queue) = 20) =>
                 /\ last'.returned <=> ToQueue(last'.key) = <<>>
                 /\ Queue' = Queue /\ sig_break' = sig_break
          /\ (sender.pc = "send" /\ sender' # sender) =>
                 last'.op = "ReadByte" /\ last'.err = "nil" /\ Len(Queue') = 20]_vars

\* A SaveKeyStroke call with the Ctrl-C byte is parked on the full channel:
\* the channel holds 20 sequences and the break flag is not set.
C17_Witness ==
    /\ last.op = "SaveKeyStroke" /\ ~last.returned /\ last.key = <<CtrlC>>
    /\ sender.pc = "send" /\ Len(Queue) = 20
    /\ ~sig_break

\* C19: ReadByte and BreakSeen leave the break flag as it is, BreakSeen
\* reports it, ClearBreak changes nothing but the break flag, and a further
\* GetKeyBuffer call changes no field of the buffer.
C19_BreakFlagIndependent ==
    [][/\ last'.op \in {"ReadByte", "BreakSeen"} => sig_break' = sig_break
       /\ last'.op = "BreakSeen" =>
              /\ last'.ret = sig_break
              /\ UNCHANGED <<KeySettings, keycodes, inp, ind, spcKeys, sender>>
       /\ last'.op = "ClearBreak" =>
              /\ ~sig_break'
              /\ UNCHANGED <<KeySettings, keycodes, inp, ind, spcKeys, sender>>
       /\ (last'.op = "GetKeyBuffer" /\ HasBuffer) =>
              UNCHANGED <<KeySettings, keycodes, inp, ind, sig_break, spcKeys, sender>>]_vars

\* ClearBreak was called with one byte of a two byte sequence read: the
\* flag is down and the other byte is still to be read.
C19_Witness ==
    /\ last.op = "ClearBreak" /\ ~sig_break
    /\ Len(inp) = 2 /\ ind = 1

\* C20: every key sequence in the channel or in the hands of a parked
\* SaveKeyStroke call is non-empty, the read position lies between 0 and the
\* length of the current key sequence, and it is at least 1 once a sequence
\* was taken; so both index expressions of ReadByte are in range.
C20_ReadPositionInRange ==
    /\ \A i \in 1..Len(Queue) : Queue[i] # <<>>
    /\ sender.pc # "idle" => sender.key # <<>>
    /\ 0 <= ind /\ ind <= Len(inp)
    /\ inp # <<>> => ind >= 1
    /\ (keycodes # Nil /\ Queue # <<>>) => 1 \in DOMAIN Head(Queue)
    /\ (inp # <<>> /\ ind < Len(inp)) => (ind + 1) \in DOMAIN inp

\* An escape sequence whose macro text is empty was passed after a key
\* sequence had been read to its end; nothing was queued for it.
C20_Witness ==
    /\ last.op = "SaveKeyStroke" /\ last.key = F14Seq /\ last.returned
    /\ KeySettings # Nil
    /\ inp # <<>> /\ ind = Len(inp)
    /\ Queue = <<>>

(***************************************************************************)
(* Parser claims                                                           *)
(***************************************************************************)
\* The tokens of the list, without the token that ends the statement.
ListToks == SubSeq(toks, 1, Len(toks) - 1)

CommaAt == {i \in 1..Len(ListToks) : ListToks[i].Type = COMMA}

EndsInComma == Len(ListToks) \in CommaAt

\* The tokens written at argument position k (1 is before the first comma).
RECURSIVE NthComma(_)
NthComma(k) ==
    IF k = 0 THEN 0
    ELSE IF k > Cardinality(CommaAt) THEN Len(ListToks) + 1
    ELSE CHOOSE i \in CommaAt : Cardinality({j \in CommaAt : j < i}) = k - 1

Written(k) == SubSeq(ListToks, NthComma(k - 1) + 1, NthComma(k) - 1)

\* C4: for a list that does not end in a comma the result has one element
\* per argument position (commas + 1), nil exactly at the positions where
\* nothing is written, and the written expressions at their positions.
C4_OneElementPerPosition ==
    (ppc = "done" /\ ~EndsInComma) =>
        /\ Len(exp) = Cardinality(CommaAt) + 1
        /\ \A k \in 1..Len(exp) :
              exp[k] = IF Written(k) = <<>> THEN NilExpr
                       ELSE Node([i \in 1..Len(Written(k)) |-> Written(k)[i].Literal])

\* C5: Syntax is reported exactly when the list ends in a comma, and then
\* once.
C5_SyntaxIffTrailingComma ==
    ppc = "done" =>
        perrors = IF EndsInComma THEN <<ErrorCode("Syntax")>> ELSE <<>>

\* The list "A,," has been parsed and Syntax was reported.
C5_Witness ==
    /\ ppc = "done"
    /\ ListToks = <<Ident("A"), Token(COMMA, ","), Token(COMMA, ",")>>
    /\ perrors = <<ErrorCode("Syntax")>>
(***************************************************************************)
(* Error catalog claims                                                    *)
(***************************************************************************)
NamedErrors == Range(ErrorConsts) \ {"_"}

\* The numbers the catalog and the claim give.
HistoricalNumbers ==
    {<<"DuplicateDefinition", 10>>, <<"ResumeWoError", 20>>, <<"WendWoWhile", 30>>,
     <<"FieldOverflow", 50>>, <<"FileNotFound", 53>>, <<"PermissionDenied", 70>>}

\* C6: every named constant has the number the catalog annotates (a code
\* that is passed as the value of such a constant is that number), and the
\* named constants are pairwise distinct.
C6_HistoricalNumbers ==
    /\ \A p \in HistoricalNumbers : err = ErrorCode(p[1]) => err = p[2]
    /\ \A a, b \in NamedErrors : a # b => ErrorCode(a) # ErrorCode(b)

\* The twelve constants with a text of their own.
ErrorTexts ==
    {<<"CantContinue", "Can't continue">>, <<"DivByZero", "Division by zero">>,
     <<"FileNotFound", "File not found">>, <<"IllegalDirect", "Illegal direct">>,
     <<"NextWithoutFor", "NEXT without FOR">>, <<"OutOfData", "Out of DATA">>,
     <<"Overflow", "Overflow">>, <<"ReturnWoGosub", "RETURN without GOSUB">>,
     <<"Syntax", "Syntax error">>, <<"TypeMismatch", "Type mismatch">>,
     <<"UnDefinedLineNumber", "Undefined line number">>,
     <<"PathNotFound", "Path not found">>}

\* C7: TextForError is total: a code of one of the twelve constants gives
\* that constant's text, every other integer gives "Unprintable error", and
\* no two of the twelve codes give the same text.
C7_TextForErrorTotal ==
    /\ epc = "done" =>
          /\ \A p \in ErrorTexts : err = ErrorCode(p[1]) => text = p[2]
          /\ (\A p \in ErrorTexts : err # ErrorCode(p[1])) => text = "Unprintable error"
    /\ Cardinality(ErrorTexts) = 12
    /\ \A p, q \in ErrorTexts :
          p # q => /\ ErrorCode(p[1]) # ErrorCode(q[1])
                   /\ TextForError(ErrorCode(p[1])) # TextForError(ErrorCode(q[1]))

\* TextForError(DivByZero) has returned "Division by zero".
C7_Witness ==
    epc = "done" /\ err = ErrorCode("DivByZero") /\ text = "Division by zero"

(***************************************************************************)
(* Keyword lookup claims                                                   *)
(***************************************************************************)
\* C8 as claimed: for every string the lookup gives the same type for the
\* string, for its upper case and for its lower case; that type is the
\* keyword's when the lower case of the string is a keyword, IDENT otherwise.
C8_CaseInsensitive ==
    tpc = "done" =>
        /\ tok = LookupIdent(ToUpper(ident))
        /\ tok = LookupIdent(ToLower(ident))
        /\ tok = IF ToLower(ident) \in DOMAIN keywords
                 THEN keywords[ToLower(ident)] ELSE IDENT

\* The upper case letters of ASCII are the only runes whose upper case is
\* an ASCII letter, apart from U+0131 and U+017F.
NoAsciiRelative(s) == \A i \in 1..Len(s) : s[i] \notin {DotlessI, LongS}

\* C8 as amended: the lower case part for every string, the upper case part
\* for the strings without U+0131 and U+017F; there are 41 keywords, each
\* with the type spelled as the keyword in upper case.
C8_CaseInsensitiveAscii ==
    /\ tpc = "done" =>
          /\ tok = LookupIdent(ToLower(ident))
          /\ NoAsciiRelative(ident) => tok = LookupIdent(ToUpper(ident))
          /\ tok = IF \E k \in DOMAIN keywords : k = ToLower(ident)
                   THEN keywords[ToLower(ident)] ELSE IDENT
    /\ Cardinality(DOMAIN keywords) = 41

\* "Print" was looked up and is the keyword PRINT.
C8_Witness ==
    tpc = "done" /\ ident = <<"P", "r", "i", "n", "t">> /\ tok = "PRINT"
(***************************************************************************)
(* File name rendering claims.  A character is a rune: a name is made of   *)
(* whole characters, and CharCount counts as utf8.RuneCountInString does.  *)
(***************************************************************************)
IsAscii(s) == \A i \in 1..Len(s) : s[i] \notin {LeadByte, ContByte}

\* C9 as claimed: the rendering is 17 characters long for every name and
\* both values of the directory flag.
C9_Always17 == fpc = "done" => CharCount(output) = 17

\* C9 as amended: 17 characters with the directory flag set, 16 without
\* it; for a name of ASCII characters that is also the length in bytes.
C9_Width ==
    fpc = "done" =>
        /\ CharCount(output) = IF isDir THEN 17 ELSE 16
        /\ IsAscii(name) => Len(output) = IF isDir THEN 17 ELSE 16

\* A directory with a long base name and a long extension was rendered.
C9_Witness ==
    /\ fpc = "done" /\ isDir
    /\ name = Rep(9, "a") \o <<".">> \o Rep(4, "a")
    /\ output = Rep(7, "a") \o <<"+", ".", "a", "a", "a", "<", "d", "i", "r", ">">>

\* The characters of a string of whole characters, each as its bytes.
RECURSIVE CharsFrom(_, _)
CharsFrom(s, i) ==
    IF i > Len(s) THEN <<>>
    ELSE <<SubSeq(s, i, i + RuneWidth(s, i) - 1)>> \o CharsFrom(s, i + RuneWidth(s, i))

Chars(s) == CharsFrom(s, 1)

RECURSIVE Bytes(_)
Bytes(cs) == IF cs = <<>> THEN <<>> ELSE Head(cs) \o Bytes(Tail(cs))

Periods(cs) == {i \in 1..Len(cs) : cs[i] = <<".">>}

\* The characters before the first period, and those between the first and
\* the second period (to the end when there is one period, none without).
BasePart(cs) ==
    IF Periods(cs) = {} THEN cs
    ELSE SubSeq(cs, 1, (CHOOSE i \in Periods(cs) : \A j \in Periods(cs) : i <= j) - 1)

ExtPart(cs) ==
    IF Periods(cs) = {} THEN <<>>
    ELSE LET p1 == CHOOSE i \in Periods(cs) : \A j \in Periods(cs) : i <= j
             later == Periods(cs) \ {p1}
             p2 == IF later = {} THEN Len(cs) + 1
                   ELSE CHOOSE i \in later : \A j \in later : i <= j
         IN  SubSeq(cs, p1 + 1, p2 - 1)

PadTo(cs, n) == cs \o Rep(n - Len(cs), <<" ">>)

Rendering(cs, d) ==
    Bytes((IF Len(BasePart(cs)) <= 8 THEN PadTo(BasePart(cs), 8)
           ELSE SubSeq(BasePart(cs), 1, 7) \o << <<"+">> >>)
          \o << <<".">> >>
          \o (IF Len(ExtPart(cs)) <= 3 THEN PadTo(ExtPart(cs), 3)
              ELSE SubSeq(ExtPart(cs), 1, 3)))
    \o (IF d THEN <<"<", "d", "i", "r", ">">> ELSE Rep(4, " "))

\* C10: the base name in 8 characters (padded with blanks up to 8
\* characters, the first 7 and "+" when it has more), a period, the first 3
\* characters of the extension padded to 3, then "<dir>" or four blanks.
C10_Rendering == fpc = "done" => output = Rendering(Chars(name), isDir)

\* What does hold: C10 for the names of ASCII characters.
C10_AsciiRendering ==
    (fpc = "done" /\ IsAscii(name)) => output = Rendering(Chars(name), isDir)

(***************************************************************************)
(* File server claims                                                      *)
(***************************************************************************)
\* The name starts with a period.
DotName(n) == n # <<>> /\ n[1] = "."

\* The entries of a directory read that a listing shows.
Shown(es) == SelectSeq(es, LAMBDA e : ~DotName(e.name))

\* The listing of the entries es as the body of a response.
Listing(es) == <<"[">> \o [i \in 1..Len(es) |-> <<es[i].name, es[i].isdir>>] \o <<"]">>

\* C11: sendDirectory sends the entries of the directory read whose names do
\* not start with a period, each once and in the order read, with status
\* 200 and content type application/json; when the directory read fails it
\* sends status 404 and writes nothing.
C11_DirectoryListing ==
    spc = "sendDirectory" =>
        IF disk.kind = "dir" /\ disk.ok
        THEN /\ rw.status = 200
             /\ rw.ctype = Some("application/json")
             /\ rw.body = Listing(Shown(disk.entries))
        ELSE /\ rw.status = 404
             /\ rw.body = <<>>
             /\ "Write" \notin Range(rw.calls)

\* A directory whose entries are a hidden file and then a shown directory
\* was listed: the body holds the one shown entry.
C11_Witness ==
    /\ spc = "sendDirectory"
    /\ disk = Directory(<<FileInfo(<<".", "b">>, FALSE), FileInfo(<<"d">>, TRUE)>>, TRUE)
    /\ rw.status = 200
    /\ rw.body = <<"[", <<(<<"d">>), TRUE>>, "]">>

\* Some slash-separated segment of the name starts with a period.
DotSegment(n) ==
    \E i \in 1..Len(n) : n[i] = "." /\ (i = 1 \/ n[i - 1] = "/")

\* C12: fileSource.Open answers a name with a segment that starts with a
\* period (a ".." segment too) with the permission error and without a call
\* on the underlying file system; for every other name it calls Open of the
\* underlying file system once with that name and returns its file, or its
\* error unchanged.
C12_OpenHidesDotFiles ==
    spc = "Open" =>
        IF DotSegment(rqName)
        THEN opened = [file |-> Nil, err |-> "ErrPermission"] /\ srcCalls = <<>>
        ELSE /\ srcCalls = << <<"Open", rqName>> >>
             /\ IF disk.kind \in {"missing", "denied"}
                THEN opened = [file |-> Nil, err |-> disk.err]
                ELSE opened = [file |-> Some([dotFileHidingFile |-> disk]), err |-> "nil"]

\* Open was called with a name whose second segment is "..", for a file the
\* underlying file system would have opened.
C12_Witness ==
    /\ spc = "Open"
    /\ rqName = <<"/", ".", ".">>
    /\ disk.kind = "file"
    /\ opened.err = "ErrPermission" /\ srcCalls = <<>>

Slashed(s) == [i \in 1..Len(s) |-> IF s[i] = "\\" THEN "/" ELSE s[i]]

\* The path starts with a drive spec: a letter and a colon.
HasDriveSpec(s) ==
    /\ Len(s) >= 2
    /\ s[1] \in Range(UpperLetters) \cup Range(LowerLetters)
    /\ s[2] = ":"

\* "drive" and the upper-cased drive letter of a path, as one path segment.
DriveSegment(s) ==
    LET l == s[1]
        up == IF \E i \in 1..26 : LowerLetters[i] = l
              THEN UpperLetters[CHOOSE i \in 1..26 : LowerLetters[i] = l]
              ELSE l
    IN  <<"d", "r", "i", "v", "e", up>>

\* The segments of a path: what stands between its slashes.
RECURSIVE Segments(_)
Segments(s) ==
    IF \A i \in 1..Len(s) : s[i] # "/" THEN <<s>>
    ELSE LET d == CHOOSE i \in 1..Len(s) : s[i] = "/" /\ \A j \in 1..(i - 1) : s[j] # "/"
         IN  <<SubSeq(s, 1, d - 1)>> \o Segments(SubSeq(s, d + 1, Len(s)))

\* Walking the segments from a directory given as a stack of segments: an
\* empty segment and "." stay, ".." goes to the parent (and is kept where
\* there is none), every other segment goes down.
RECURSIVE Walk(_, _)
Walk(stack, segs) ==
    IF segs = <<>> THEN stack
    ELSE LET g == Head(segs)
         IN  IF g \in {<<>>, <<".">>} THEN Walk(stack, Tail(segs))
             ELSE IF g = <<".", ".">>
             THEN IF stack # <<>> /\ stack[Len(stack)] # <<".", ".">>
                  THEN Walk(SubSeq(stack, 1, Len(stack) - 1), Tail(segs))
                  ELSE Walk(Append(stack, g), Tail(segs))
             ELSE Walk(Append(stack, g), Tail(segs))

\* A stack of segments written as a path.
RECURSIVE PathOf(_)
PathOf(stack) ==
    IF stack = <<>> THEN <<".">>
    ELSE IF Len(stack) = 1 THEN stack[1]
    ELSE stack[1] \o <<"/">> \o PathOf(Tail(stack))

\* C14: convertDrive reads backslashes as slashes.  A target with a drive
\* spec is resolved from drive<LETTER> of the target by the rest of the
\* target, whatever cwd is; a target that starts with a slash from
\* drive<LETTER> of cwd; any other non-empty target from drive<LETTER> of
\* cwd by the directory of cwd and then the target; the empty target is
\* drive<LETTER> of cwd alone.  The drive letter is upper case.
C14_DriveMapping ==
    dpc = "done" =>
        LET t == Slashed(target)
            c == Slashed(cwd)
        IN  IF target = <<>> THEN url = DriveSegment(c)
            ELSE IF HasDriveSpec(t)
            THEN /\ url = PathOf(Walk(<<DriveSegment(t)>>, Segments(SubSeq(t, 3, Len(t)))))
                 /\ \A other \in Cwds : convertDrive(target, other) = url
            ELSE IF t[1] = "/"
            THEN url = PathOf(Walk(<<DriveSegment(c)>>, Segments(t)))
            ELSE url = PathOf(Walk(<<DriveSegment(c)>>,
                                   Segments(SubSeq(c, 3, Len(c))) \o Segments(t)))

\* A relative target with a backslash was resolved from a lower case drive
\* and a directory of cwd.
C14_Witness ==
    /\ dpc = "done"
    /\ target = <<"c", "\\", "c">> /\ cwd = <<"c", ":", "\\", "x">>
    /\ url = <<"d", "r", "i", "v", "e", "C", "/", "x", "/", "c", "/", "c">>

\* C18: for every target and every cwd that starts with a drive spec the
\* returned path is drive<LETTER> or begins with drive<LETTER>/.
C18_StaysInsideDrive ==
    (dpc = "done" /\ HasDriveSpec(cwd)) =>
        \E l \in Range(UpperLetters) :
            LET drv == <<"d", "r", "i", "v", "e", l>>
            IN  url = drv \/ HasPrefix(url, Append(drv, "/"))

\* A path without its drive spec.
AfterDriveSpec(s) == IF HasDriveSpec(s) THEN SubSeq(s, 3, Len(s)) ELSE s

\* What does hold: C18 for the targets and working directories that have
\* no ".." segment.
C18_StaysInsideWithoutDotDot ==
    (dpc = "done" /\ HasDriveSpec(cwd)
        /\ <<".", ".">> \notin Range(Segments(AfterDriveSpec(Slashed(target))))
        /\ <<".", ".">> \notin Range(Segments(AfterDriveSpec(Slashed(cwd))))) =>
        \E l \in Range(UpperLetters) :
            LET drv == <<"d", "r", "i", "v", "e", l>>
            IN  url = drv \/ HasPrefix(url, Append(drv, "/"))

(***************************************************************************)
(* Directory walk claims                                                   *)
(***************************************************************************)
\* C15: the steps of wrapSubDirs come in a fixed order and a failing step
\* ends the walk of its directory or entry.  The entries are read only
\* after the root was opened, and a failed open of the root or a failed
\* directory read is followed by the return; an entry is opened only right
\* after its name was read and only when the name does not start with a
\* period, it is stat'ed only right after it was opened, and routes are
\* registered, and the walk goes down, only right after its Stat reported a
\* directory.
C15_WalkOrder ==
    [][/\ wlast'.op = "OpenRoot" => wlast.op = "HandleFunc"
       /\ wlast'.op = "Readdir" => wlast.op = "OpenRoot" /\ wlast.ok
       /\ (wlast.op = "OpenRoot" /\ ~wlast.ok) => wlast'.op = "Return"
       /\ (wlast.op = "Readdir" /\ ~wlast.ok) => wlast'.op = "Return"
       /\ wlast'.op = "Name" =>
              \/ wlast.op = "Readdir" /\ wlast.ok
              \/ wlast.op = "Name" /\ DotName(wlast.name)
              \/ wlast.op = "Open" /\ ~wlast.ok
              \/ wlast.op = "Stat" /\ ~(wlast.ok /\ wlast.isdir)
              \/ wlast.op = "Return"
       /\ wlast'.op = "Open" =>
              /\ wlast.op = "Name" /\ wlast'.name = wlast.name
              /\ ~DotName(wlast.name)
       /\ wlast'.op = "Stat" =>
              wlast.op = "Open" /\ wlast.ok /\ wlast'.name = wlast.name
       /\ wlast'.op = "HandleFunc" =>
              /\ wlast.op = "Stat" /\ wlast.ok /\ wlast.isdir
              /\ wlast'.name = wlast.name
              /\ Len(wstack') = Len(wstack) + 1
       /\ wlast'.op # "HandleFunc" =>
              /\ routes' = routes
              /\ Len(wstack') <= Len(wstack)]_vars

\* The walk is over and went one directory down: it registered the routes
\* of the directory a of the drive and of no directory below it.
C15_Witness ==
    /\ wpc = "done"
    /\ <<(<<"driveC", (<<"a">>)>>), "/{file}">> \in routes
    /\ \A r \in routes : Len(r[1]) <= 2
====
